---- MODULE Spec2Model ----
(***************************************************************************)
(* The round_robin LB policy of                                            *)
(* src/core/ext/filters/client_channel/lb_policy/round_robin/round_robin.cc *)
(* as a state machine: the policy's two subchannel-list slots, every       *)
(* subchannel list created so far with its per-entry logical states and    *)
(* its three counters, and the UpdateState calls of the running handler.   *)
(* Every handler runs as one turn of the work serializer: one action is    *)
(* one whole handler, and TurnEnds is the serializer taking the turn's     *)
(* record away before the next handler starts.                             *)
(***************************************************************************)
EXTENDS Integers, Sequences, FiniteSets, TLC

\* ---------------------------------------------------------------- bounds
\* Most addresses one resolver result carries.
MaxSubchannels == 2
\* Most subchannel lists created in one behaviour.
MaxLists == 3
\* Most handler calls the channel still makes after ShutdownLocked.
MaxCallsAfterShutdown == 1
\* Most call-dispatch threads inside Pick() on one Picker at a time.
MaxCallers == 2
\* Most Pick() calls made on one Picker in one behaviour.
MaxPicks == 4

\* ------------------------------------------------- grpc_connectivity_state
IDLE == "IDLE"
CONNECTING == "CONNECTING"
READY == "READY"
TRANSIENT_FAILURE == "TRANSIENT_FAILURE"

\* The raw states a subchannel reports to the policy (SHUTDOWN is asserted
\* away by UpdateStateCountersLocked and is never delivered).
RawStates == {IDLE, CONNECTING, READY, TRANSIENT_FAILURE}

\* The status carried by a report.
StatusOk == "OK"
StatusEmptyAddressList == "empty address list"
StatusResolver == "resolver status"
StatusAllFailing == "connections to all backends failing"

\* nullptr of an OrphanablePtr<RoundRobinSubchannelList>; lists are numbered
\* from 1 in creation order.
NullList == 0

VARIABLES
  lists,                            \* every RoundRobinSubchannelList created
  subchannel_list_,                 \* RoundRobin::subchannel_list_
  latest_pending_subchannel_list_,  \* RoundRobin::latest_pending_subchannel_list_
  shutdown_,                        \* RoundRobin::shutdown_
  reports,                          \* UpdateState calls of this turn's handler
  lastOp,                           \* this turn's handler and its arguments
  failed,                           \* the process aborted (GPR_ASSERT, nullptr)
  calls_after_shutdown,             \* handler calls made since ShutdownLocked
  picker,                           \* the Picker the helper holds, if any
  requests,                         \* RequestReresolution and RequestConnection
                                    \* calls of this turn's handler
  last_picked_index_,               \* Picker::last_picked_index_ of that Picker
  calls,                            \* the Pick() call each caller is inside
  picked,                           \* the Pick() results, in order of return
  first_index,                      \* last_picked_index_ as the constructor set it
  concurrent                        \* two Pick() calls have overlapped

\* The policy, as the work serializer sees it.
policyVars == <<lists, subchannel_list_, latest_pending_subchannel_list_,
                shutdown_, reports, lastOp, failed, calls_after_shutdown,
                picker, requests>>

\* The Picker, as the call-dispatch threads see it.
pickVars == <<last_picked_index_, calls, picked, first_index, concurrent>>

vars == <<lists, subchannel_list_, latest_pending_subchannel_list_,
          shutdown_, reports, lastOp, failed, calls_after_shutdown,
          picker, requests, last_picked_index_, calls, picked, first_index,
          concurrent>>

\* ------------------------------------------------------- subchannel lists
\* A freshly constructed list of n entries: every entry's
\* logical_connectivity_state_ is IDLE and every counter is 0.
NewSubchannelList(n) ==
  [subchannels |-> [i \in 1..n |-> IDLE],
   num_ready_ |-> 0,
   num_connecting_ |-> 0,
   num_transient_failure_ |-> 0,
   orphaned |-> FALSE]

\* What is left of a list once its OrphanablePtr was reset or overwritten:
\* the object is gone, only its identity remains.
OrphanedList ==
  [subchannels |-> <<>>,
   num_ready_ |-> 0,
   num_connecting_ |-> 0,
   num_transient_failure_ |-> 0,
   orphaned |-> TRUE]

num_subchannels(sl) == Len(sl.subchannels)

\* OrphanablePtr::reset() / overwriting assignment on the list numbered id.
Orphan(ls, id) ==
  IF id = NullList THEN ls ELSE [ls EXCEPT ![id] = OrphanedList]

\* The GPR_ASSERTs of UpdateStateCountersLocked.
CountersAssertOk(sl, old_state) ==
  /\ old_state = READY => sl.num_ready_ > 0
  /\ old_state = CONNECTING => sl.num_connecting_ > 0
  /\ old_state = TRANSIENT_FAILURE => sl.num_transient_failure_ > 0

\* Mutant: the two states are taken in the wrong order.
UpdateStateCountersArgsSwapped(sl, old_state, new_state) ==
  LET dec == IF new_state = READY
               THEN [sl EXCEPT !.num_ready_ = @ - 1]
             ELSE IF new_state = CONNECTING
               THEN [sl EXCEPT !.num_connecting_ = @ - 1]
             ELSE IF new_state = TRANSIENT_FAILURE
               THEN [sl EXCEPT !.num_transient_failure_ = @ - 1]
             ELSE sl
  IN IF old_state = READY
       THEN [dec EXCEPT !.num_ready_ = @ + 1]
     ELSE IF old_state = CONNECTING
       THEN [dec EXCEPT !.num_connecting_ = @ + 1]
     ELSE IF old_state = TRANSIENT_FAILURE
       THEN [dec EXCEPT !.num_transient_failure_ = @ + 1]
     ELSE dec

\* Mutant: the bucket of the old state is not decremented.
UpdateStateCountersNoDecrement(sl, old_state, new_state) ==
  IF new_state = READY
    THEN [sl EXCEPT !.num_ready_ = @ + 1]
  ELSE IF new_state = CONNECTING
    THEN [sl EXCEPT !.num_connecting_ = @ + 1]
  ELSE IF new_state = TRANSIENT_FAILURE
    THEN [sl EXCEPT !.num_transient_failure_ = @ + 1]
  ELSE sl

UpdateStateCountersLocked(sl, old_state, new_state) ==
  LET dec == IF old_state = READY
               THEN [sl EXCEPT !.num_ready_ = @ - 1]
             ELSE IF old_state = CONNECTING
               THEN [sl EXCEPT !.num_connecting_ = @ - 1]
             ELSE IF old_state = TRANSIENT_FAILURE
               THEN [sl EXCEPT !.num_transient_failure_ = @ - 1]
             ELSE sl
  IN IF new_state = READY
       THEN [dec EXCEPT !.num_ready_ = @ + 1]
     ELSE IF new_state = CONNECTING
       THEN [dec EXCEPT !.num_connecting_ = @ + 1]
     ELSE IF new_state = TRANSIENT_FAILURE
       THEN [dec EXCEPT !.num_transient_failure_ = @ + 1]
     ELSE dec

\* ------------------------------------------------------- subchannel data
\* Mutant: TRANSIENT_FAILURE is not sticky.
UpdateLogicalNotSticky(sl, i, connectivity_state) ==
  LET cur == sl.subchannels[i]
      folded == IF connectivity_state = IDLE THEN CONNECTING
                ELSE connectivity_state
  IN IF cur = folded
       THEN [list |-> sl, changed |-> FALSE, ok |-> TRUE]
     ELSE [list |-> [UpdateStateCountersLocked(sl, cur, folded)
                       EXCEPT !.subchannels[i] = folded],
           changed |-> TRUE,
           ok |-> CountersAssertOk(sl, cur)]

\* Mutant: an unchanged logical state is not recognised as no change.
UpdateLogicalNoChangeCheck(sl, i, connectivity_state) ==
  LET cur == sl.subchannels[i]
      folded == IF connectivity_state = IDLE THEN CONNECTING
                ELSE connectivity_state
  IN IF cur = TRANSIENT_FAILURE /\ connectivity_state # READY
       THEN [list |-> sl, changed |-> FALSE, ok |-> TRUE]
     ELSE [list |-> [UpdateStateCountersLocked(sl, cur, folded)
                       EXCEPT !.subchannels[i] = folded],
           changed |-> TRUE,
           ok |-> CountersAssertOk(sl, cur)]

\* UpdateLogicalConnectivityStateLocked on entry i of list sl: the list
\* afterwards, whether the logical state changed, and whether every
\* assertion on the way held.
UpdateLogicalConnectivityStateLocked(sl, i, connectivity_state) ==
  LET cur == sl.subchannels[i]
      folded == IF connectivity_state = IDLE THEN CONNECTING
                ELSE connectivity_state
  IN IF cur = TRANSIENT_FAILURE /\ connectivity_state # READY
       THEN [list |-> sl, changed |-> FALSE, ok |-> TRUE]
     ELSE IF cur = folded
       THEN [list |-> sl, changed |-> FALSE, ok |-> TRUE]
     ELSE [list |-> [UpdateStateCountersLocked(sl, cur, folded)
                       EXCEPT !.subchannels[i] = folded],
           changed |-> TRUE,
           ok |-> CountersAssertOk(sl, cur)]

\* ------------------------------------------- promotion and aggregation
\* Mutant: the Picker takes every entry, READY or not.
AllSubchannels(sl, i) ==
  [k \in 1..(num_subchannels(sl) - i + 1) |-> k + i - 1]

\* The indices, in list order, of the entries a Picker built over sl takes:
\* those whose connectivity_state() is READY.
RECURSIVE ReadySubchannels(_, _)
ReadySubchannels(sl, i) ==
  IF i > num_subchannels(sl) THEN <<>>
  ELSE (IF sl.subchannels[i] = READY THEN <<i>> ELSE <<>>)
       \o ReadySubchannels(sl, i + 1)

\* Mutant: a list is not swapped in while there is no current list.
ShouldPromoteOnlyOverCurrent(ls, this, act, pend) ==
  /\ pend = this
  /\ act # NullList
  /\ \/ ls[act].num_ready_ = 0
     \/ ls[this].num_ready_ > 0
     \/ ls[this].num_transient_failure_ = num_subchannels(ls[this])

\* Mutant: the swap does not check that the list is the pending list.
ShouldPromoteAnyList(ls, this, act, pend) ==
  \/ act = NullList
  \/ ls[act].num_ready_ = 0
  \/ ls[this].num_ready_ > 0
  \/ ls[this].num_transient_failure_ = num_subchannels(ls[this])

\* Mutant: the swap does not look at the READY count of the current list.
ShouldPromoteIgnoringActiveReady(ls, this, act, pend) ==
  /\ pend = this
  /\ \/ act = NullList
     \/ ls[this].num_ready_ > 0
     \/ ls[this].num_transient_failure_ = num_subchannels(ls[this])

\* Mutant: an empty list does not count as all TRANSIENT_FAILURE.
ShouldPromoteNonEmptyAllFailed(ls, this, act, pend) ==
  /\ pend = this
  /\ \/ act = NullList
     \/ ls[act].num_ready_ = 0
     \/ ls[this].num_ready_ > 0
     \/ /\ num_subchannels(ls[this]) > 0
        /\ ls[this].num_transient_failure_ = num_subchannels(ls[this])

\* The swap condition of MaybeUpdateRoundRobinConnectivityStateLocked, run
\* on list this while the policy's slots hold act and pend.
ShouldPromote(ls, this, act, pend) ==
  /\ pend = this
  /\ \/ act = NullList
     \/ ls[act].num_ready_ = 0
     \/ ls[this].num_ready_ > 0
     \/ ls[this].num_transient_failure_ = num_subchannels(ls[this])

\* Mutant: the CONNECTING rule is tried before the READY rule.
AggregatedReportsConnectingFirst(sl, this, status_for_tf) ==
  IF sl.num_connecting_ > 0
    THEN <<[state |-> CONNECTING, status |-> StatusOk, list |-> this,
            picker |-> <<>>]>>
  ELSE IF sl.num_ready_ > 0
    THEN <<[state |-> READY, status |-> StatusOk, list |-> this,
            picker |-> ReadySubchannels(sl, 1)]>>
  ELSE IF sl.num_transient_failure_ = num_subchannels(sl)
    THEN <<[state |-> TRANSIENT_FAILURE, status |-> status_for_tf,
            list |-> this, picker |-> <<>>]>>
  ELSE <<>>

\* The UpdateState calls of the aggregation step on list this: first
\* matching rule wins.
AggregatedReports(sl, this, status_for_tf) ==
  IF sl.num_ready_ > 0
    THEN <<[state |-> READY, status |-> StatusOk, list |-> this,
            picker |-> ReadySubchannels(sl, 1)]>>
  ELSE IF sl.num_connecting_ > 0
    THEN <<[state |-> CONNECTING, status |-> StatusOk, list |-> this,
            picker |-> <<>>]>>
  ELSE IF sl.num_transient_failure_ = num_subchannels(sl)
    THEN <<[state |-> TRANSIENT_FAILURE, status |-> status_for_tf,
            list |-> this, picker |-> <<>>]>>
  ELSE <<>>

\* Mutant: the aggregation step runs for any list.
IsCurrentListAlways(this, act) == TRUE

\* Whether the aggregation step runs: only for the current subchannel list.
IsCurrentList(this, act) == act = this

\* Mutant: a run on the current list that finds it without READY entries
\* swaps the pending list in.
MaybeUpdatePromotesFromCurrent(ls, this, act, pend, status_for_tf) ==
  LET other == this = act /\ pend # NullList /\ ls[act].num_ready_ = 0
      swap == other \/ ShouldPromote(ls, this, act, pend)
      act1 == IF other THEN pend ELSE IF swap THEN this ELSE act
      pend1 == IF swap THEN NullList ELSE pend
      ls1 == IF swap THEN Orphan(ls, act) ELSE ls
  IN [lists |-> ls1,
      active |-> act1,
      pending |-> pend1,
      swapped |-> swap,
      reports |-> IF IsCurrentList(this, act1)
                    THEN AggregatedReports(ls1[this], this, status_for_tf)
                    ELSE <<>>]

\* Mutant: the swap copies the pending pointer instead of moving it.
MaybeUpdateCopiesPending(ls, this, act, pend, status_for_tf) ==
  LET swap == ShouldPromote(ls, this, act, pend)
      act1 == IF swap THEN this ELSE act
      ls1 == IF swap THEN Orphan(ls, act) ELSE ls
  IN [lists |-> ls1,
      active |-> act1,
      pending |-> pend,
      swapped |-> swap,
      reports |-> IF IsCurrentList(this, act1)
                    THEN AggregatedReports(ls1[this], this, status_for_tf)
                    ELSE <<>>]

\* MaybeUpdateRoundRobinConnectivityStateLocked on list this: the lists,
\* both slots and the UpdateState calls afterwards, and whether it swapped
\* the list into subchannel_list_.
MaybeUpdateRoundRobinConnectivityStateLocked(ls, this, act, pend, status_for_tf) ==
  LET swap == ShouldPromote(ls, this, act, pend)
      act1 == IF swap THEN this ELSE act
      pend1 == IF swap THEN NullList ELSE pend
      ls1 == IF swap THEN Orphan(ls, act) ELSE ls
  IN [lists |-> ls1,
      active |-> act1,
      pending |-> pend1,
      swapped |-> swap,
      reports |-> IF IsCurrentList(this, act1)
                    THEN AggregatedReports(ls1[this], this, status_for_tf)
                    ELSE <<>>]

\* The first loop of StartWatchingLocked from entry i on: every polled
\* state other than IDLE goes through UpdateLogicalConnectivityStateLocked.
RECURSIVE CheckConnectivityStates(_, _, _)
CheckConnectivityStates(sl, polled, i) ==
  IF i > num_subchannels(sl) THEN [list |-> sl, ok |-> TRUE]
  ELSE IF polled[i] = IDLE THEN CheckConnectivityStates(sl, polled, i + 1)
  ELSE LET u == UpdateLogicalConnectivityStateLocked(sl, i, polled[i])
           rest == CheckConnectivityStates(u.list, polled, i + 1)
       IN [list |-> rest.list, ok |-> u.ok /\ rest.ok]

\* The calls a handler makes on the helper and on the subchannels.
RequestReresolution ==
  [call |-> "RequestReresolution", list |-> NullList, index |-> 0]
RequestConnection(this, i) ==
  [call |-> "RequestConnection", list |-> this, index |-> i]

\* The second loop of StartWatchingLocked: a watch and a connection
\* request for every entry.
StartConnectivityWatches(this, sl) ==
  [i \in 1..num_subchannels(sl) |-> RequestConnection(this, i)]

\* StartWatchingLocked on list this, whose entries poll as polled.
StartWatchingLocked(ls, this, polled, act, pend, status_for_tf) ==
  LET c == CheckConnectivityStates(ls[this], polled, 1)
      m == MaybeUpdateRoundRobinConnectivityStateLocked(
             [ls EXCEPT ![this] = c.list], this, act, pend, status_for_tf)
  IN [lists |-> m.lists, active |-> m.active, pending |-> m.pending,
      swapped |-> m.swapped, reports |-> m.reports, ok |-> c.ok,
      requests |-> StartConnectivityWatches(this, ls[this])]

\* The helper holds no Picker of this policy.
NoPicker == [list |-> NullList, subchannels_ |-> <<>>]

\* The Picker the helper holds after the UpdateState calls rs: a READY
\* report hands over a new one, built over the reporting list; any other
\* report replaces it by a QueuePicker or a TransientFailurePicker.
HandedPicker(rs) ==
  IF rs = <<>> THEN picker
  ELSE IF rs[Len(rs)].state = READY
    THEN [list |-> rs[Len(rs)].list, subchannels_ |-> rs[Len(rs)].picker]
  ELSE NoPicker

\* ------------------------------------------------------------ the policy
\* The record of a turn: the handler, the list and entry it ran on, its
\* argument, whether the entry's logical state changed, whether the
\* promotion-and-aggregation procedure ran and whether it swapped lists.
Op(op, list, index, arg, changed, ran, swapped) ==
  [op |-> op, list |-> list, index |-> index, arg |-> arg,
   changed |-> changed, ran |-> ran, swapped |-> swapped]

\* No handler is running: the work serializer is between two turns.
NoOp == Op("none", NullList, 0, "", FALSE, FALSE, FALSE)

\* A caller that is not inside Pick().
NoCall == [pc |-> "out", index |-> 0]

AddressesOk == "ok"
AddressesError == "error"

Init ==
  /\ lists = <<>>
  /\ subchannel_list_ = NullList
  /\ latest_pending_subchannel_list_ = NullList
  /\ shutdown_ = FALSE
  /\ reports = <<>>
  /\ lastOp = NoOp
  /\ failed = FALSE
  /\ calls_after_shutdown = 0
  /\ picker = NoPicker
  /\ requests = <<>>
  /\ last_picked_index_ = 0
  /\ calls = [c \in 1..MaxCallers |-> NoCall]
  /\ picked = <<>>
  /\ first_index = 0
  /\ concurrent = FALSE

\* A handler starts only between two turns of a process that still runs;
\* once the policy is shut down the channel makes few further calls.
CanRun ==
  /\ ~failed
  /\ lastOp = NoOp
  /\ shutdown_ => calls_after_shutdown < MaxCallsAfterShutdown

\* Every handler call after ShutdownLocked is counted.
CountCall ==
  calls_after_shutdown' =
    IF shutdown_ THEN calls_after_shutdown + 1 ELSE calls_after_shutdown

\* Mutant: one status for every Update.
StatusForUpdateUnified(addresses) == StatusEmptyAddressList

\* The status UpdateLocked hands to StartWatchingLocked.
StatusForUpdate(addresses) ==
  IF addresses = AddressesOk THEN StatusEmptyAddressList ELSE StatusResolver

\* Mutant: a resolver failure is never ignored.
IgnoresResolverFailureNever(addresses, act) == FALSE

\* Whether UpdateLocked returns before creating a list: a resolver failure
\* while a subchannel list exists.
IgnoresResolverFailure(addresses, act) ==
  addresses # AddressesOk /\ act # NullList

\* UpdateLocked with a resolver result that is an address list of n
\* addresses whose subchannels poll as polled, or a failure.
UpdateLocked(addresses, n, polled) ==
  /\ CanRun
  /\ CountCall
  /\ IF IgnoresResolverFailure(addresses, subchannel_list_)
       THEN /\ n = 0
            /\ reports' = <<>>
            /\ requests' = <<>>
            /\ lastOp' = Op("UpdateLocked", NullList, 0, addresses,
                            FALSE, FALSE, FALSE)
            /\ UNCHANGED <<lists, subchannel_list_,
                           latest_pending_subchannel_list_, shutdown_, failed,
                           picker>>
       ELSE /\ Len(lists) < MaxLists
            /\ addresses # AddressesOk => n = 0
            /\ \E r \in {StartWatchingLocked(
                          Append(Orphan(lists, latest_pending_subchannel_list_),
                                 NewSubchannelList(n)),
                          Len(lists) + 1, polled, subchannel_list_,
                          Len(lists) + 1, StatusForUpdate(addresses))} :
                  IF r.ok
                    THEN /\ lists' = r.lists
                         /\ subchannel_list_' = r.active
                         /\ latest_pending_subchannel_list_' = r.pending
                         /\ reports' = r.reports
                         /\ requests' = r.requests
                         /\ picker' = HandedPicker(r.reports)
                         /\ lastOp' = Op("UpdateLocked", Len(lists) + 1, 0,
                                         addresses, FALSE, TRUE, r.swapped)
                         /\ UNCHANGED <<shutdown_, failed>>
                    ELSE /\ failed' = TRUE
                         /\ UNCHANGED <<lists, subchannel_list_,
                                        latest_pending_subchannel_list_,
                                        shutdown_, reports, lastOp, picker,
                                        requests>>
  /\ UNCHANGED pickVars

\* Whether the watch of a list still delivers notifications: the base
\* class drops them once the list is orphaned.
WatchActive(sl) == ~sl.orphaned

\* Mutant: only TRANSIENT_FAILURE asks for re-resolution.
RequestsOnFailureOnly(this, i, connectivity_state) ==
  IF connectivity_state = TRANSIENT_FAILURE
    THEN <<RequestReresolution, RequestConnection(this, i)>>
    ELSE <<>>

\* The requests ProcessConnectivityChangeLocked makes before it updates the
\* logical state: raw TRANSIENT_FAILURE or IDLE asks the helper to
\* re-resolve and the subchannel to reconnect.
RequestsOnNotification(this, i, connectivity_state) ==
  IF connectivity_state = TRANSIENT_FAILURE \/ connectivity_state = IDLE
    THEN <<RequestReresolution, RequestConnection(this, i)>>
    ELSE <<>>

\* The body of ProcessConnectivityChangeLocked for entry i of list this and
\* raw state connectivity_state, from the lists ls and the slots act, pend:
\* the lists, slots and UpdateState calls afterwards, whether the logical
\* state changed, whether the promotion-and-aggregation procedure ran, and
\* whether every assertion held.
ProcessConnectivityChange(ls, act, pend, this, i, connectivity_state) ==
  LET u == UpdateLogicalConnectivityStateLocked(ls[this], i,
                                                connectivity_state)
      rq == RequestsOnNotification(this, i, connectivity_state)
  IN IF u.changed
       THEN LET m == MaybeUpdateRoundRobinConnectivityStateLocked(
                       [ls EXCEPT ![this] = u.list], this, act, pend,
                       StatusAllFailing)
            IN [lists |-> m.lists, active |-> m.active,
                pending |-> m.pending, reports |-> m.reports,
                changed |-> TRUE, ran |-> TRUE, swapped |-> m.swapped,
                ok |-> u.ok, requests |-> rq]
       ELSE [lists |-> ls, active |-> act, pending |-> pend,
             reports |-> <<>>, changed |-> FALSE, ran |-> FALSE,
             swapped |-> FALSE, ok |-> TRUE, requests |-> rq]

\* ProcessConnectivityChangeLocked: the watch of entry i of list this
\* delivers raw state connectivity_state.
ProcessConnectivityChangeLocked(this, i, connectivity_state) ==
  /\ CanRun
  /\ CountCall
  /\ WatchActive(lists[this])
  /\ \E r \in {ProcessConnectivityChange(
                 lists, subchannel_list_, latest_pending_subchannel_list_,
                 this, i, connectivity_state)} :
       IF r.ok
         THEN /\ lists' = r.lists
              /\ subchannel_list_' = r.active
              /\ latest_pending_subchannel_list_' = r.pending
              /\ reports' = r.reports
              /\ requests' = r.requests
              /\ picker' = HandedPicker(r.reports)
              /\ lastOp' = Op("ProcessConnectivityChangeLocked", this, i,
                              connectivity_state, r.changed, r.ran,
                              r.swapped)
              /\ UNCHANGED <<shutdown_, failed>>
         ELSE /\ failed' = TRUE
              /\ UNCHANGED <<lists, subchannel_list_,
                             latest_pending_subchannel_list_, shutdown_,
                             reports, lastOp, picker, requests>>
  /\ UNCHANGED pickVars

ShutdownLocked ==
  /\ CanRun
  /\ CountCall
  /\ shutdown_' = TRUE
  /\ lists' = Orphan(Orphan(lists, subchannel_list_),
                     latest_pending_subchannel_list_)
  /\ subchannel_list_' = NullList
  /\ latest_pending_subchannel_list_' = NullList
  /\ reports' = <<>>
  /\ requests' = <<>>
  /\ lastOp' = Op("ShutdownLocked", NullList, 0, "", FALSE, FALSE, FALSE)
  /\ UNCHANGED <<failed, picker>>
  /\ UNCHANGED pickVars

\* SubchannelList::ResetBackoffLocked on the list numbered id, if there is
\* one.
ResetBackoffOn(id) ==
  IF id = NullList THEN <<>>
  ELSE <<[call |-> "ResetBackoffLocked", list |-> id, index |-> 0]>>

\* ResetBackoffLocked calls through subchannel_list_ without a null check:
\* with no subchannel list the call is undefined, and the build either
\* faults (crash) or goes on.
ResetBackoffLocked(crash) ==
  /\ CanRun
  /\ CountCall
  /\ failed' = (subchannel_list_ = NullList /\ crash)
  /\ reports' = <<>>
  /\ requests' = IF failed' THEN <<>>
                 ELSE ResetBackoffOn(subchannel_list_)
                      \o ResetBackoffOn(latest_pending_subchannel_list_)
  /\ lastOp' = Op("ResetBackoffLocked", NullList, 0, "", FALSE, FALSE, FALSE)
  /\ UNCHANGED <<lists, subchannel_list_, latest_pending_subchannel_list_,
                 shutdown_, picker>>
  /\ UNCHANGED pickVars

\* The handler returns: the helper has taken the turn's UpdateState calls.
TurnEnds ==
  /\ ~failed
  /\ lastOp # NoOp
  /\ reports' = <<>>
  /\ requests' = <<>>
  /\ lastOp' = NoOp
  /\ UNCHANGED <<lists, subchannel_list_, latest_pending_subchannel_list_,
                 shutdown_, failed, calls_after_shutdown, picker>>
  /\ UNCHANGED pickVars

\* The polled states of n subchannels.
Polls(n) == [1..n -> RawStates]

Update ==
  \E addresses \in {AddressesOk, AddressesError} :
    \E n \in 0..MaxSubchannels :
      \E polled \in Polls(n) :
        UpdateLocked(addresses, n, polled)

Notify ==
  \E this \in 1..Len(lists) :
    \E i \in 1..num_subchannels(lists[this]) :
      \E connectivity_state \in RawStates :
        ProcessConnectivityChangeLocked(this, i, connectivity_state)

Shutdown == ShutdownLocked

ResetBackoff == \E crash \in BOOLEAN : ResetBackoffLocked(crash)

Next == Update \/ Notify \/ Shutdown \/ ResetBackoff \/ TurnEnds

Spec == Init /\ [][Next]_vars

\* ------------------------------------------------------------ the Picker
\* The Picker under Pick() is the one the first Update built when it
\* reported READY; the call-dispatch threads call Pick() on it outside the
\* work serializer, each statement of Pick() being one step.
subchannels_ == picker.subchannels_

\* The constructor's last_picked_index_: rand() % subchannels_.size().
InitialIndexes(size) == 0..(size - 1)

\* Mutant: the cursor is not advanced.
NextIndexNotAdvanced(index, size) == index % size

\* The cursor Pick() stores: one further, modulo the snapshot size.
NextIndex(index, size) == (index + 1) % size

\* The state when the first Update, of n addresses polling as polled, has
\* reported READY and its turn has ended.
PickerBuilt(n, polled, index) ==
  LET r == StartWatchingLocked(<<NewSubchannelList(n)>>, 1, polled,
                               NullList, 1, StatusEmptyAddressList)
  IN /\ r.ok
     /\ r.reports # <<>>
     /\ r.reports[1].state = READY
     /\ index \in InitialIndexes(Len(r.reports[1].picker))
     /\ lists = r.lists
     /\ subchannel_list_ = r.active
     /\ latest_pending_subchannel_list_ = r.pending
     /\ shutdown_ = FALSE
     /\ reports = <<>>
     /\ lastOp = NoOp
     /\ failed = FALSE
     /\ calls_after_shutdown = 0
     /\ picker = [list |-> 1, subchannels_ |-> r.reports[1].picker]
     /\ requests = <<>>
     /\ last_picked_index_ = index
     /\ first_index = index
     /\ calls = [c \in 1..MaxCallers |-> NoCall]
     /\ picked = <<>>
     /\ concurrent = FALSE

InitPicker ==
  \E n \in 1..MaxSubchannels :
    \E polled \in Polls(n) :
      \E index \in 0..(n - 1) :
        PickerBuilt(n, polled, index)

\* The callers inside Pick().
Inside == {c \in 1..MaxCallers : calls[c].pc # "out"}

\* A caller enters Pick() and reads last_picked_index_.
PickLoad(c) ==
  /\ calls[c].pc = "out"
  /\ Len(picked) + Cardinality(Inside) < MaxPicks
  /\ calls' = [calls EXCEPT ![c] = [pc |-> "loaded",
                                    index |-> last_picked_index_]]
  /\ concurrent' = (concurrent \/ Inside # {})
  /\ UNCHANGED <<last_picked_index_, picked, first_index>>
  /\ UNCHANGED policyVars

\* The caller stores the advanced cursor into last_picked_index_.
PickStore(c) ==
  /\ calls[c].pc = "loaded"
  /\ last_picked_index_' = NextIndex(calls[c].index, Len(subchannels_))
  /\ calls' = [calls EXCEPT ![c] = [pc |-> "stored",
                                    index |-> last_picked_index_']]
  /\ UNCHANGED <<picked, first_index, concurrent>>
  /\ UNCHANGED policyVars

\* The caller returns subchannels_[last_picked_index_]: the member is not
\* atomic, so the index is the value it stored or the value in memory now.
PickReturn(c, index) ==
  /\ calls[c].pc = "stored"
  /\ index \in {calls[c].index, last_picked_index_}
  /\ picked' = Append(picked, [index |-> index,
                               subchannel |-> subchannels_[index + 1]])
  /\ calls' = [calls EXCEPT ![c] = NoCall]
  /\ UNCHANGED <<last_picked_index_, first_index, concurrent>>
  /\ UNCHANGED policyVars

Load == \E c \in 1..MaxCallers : PickLoad(c)

Store == \E c \in 1..MaxCallers : PickStore(c)

Return ==
  \E c \in 1..MaxCallers :
    \E index \in 0..(Len(subchannels_) - 1) : PickReturn(c, index)

NextPicker == Load \/ Store \/ Return

SpecPicker == InitPicker /\ [][NextPicker]_vars

\* ================================================================ claims
\* The lists created so far, and those whose object still exists.
ListIds == 1..Len(lists)
LiveLists == {l \in ListIds : ~lists[l].orphaned}

IsActive(l) == subchannel_list_ = l
IsPending(l) == latest_pending_subchannel_list_ = l
IsDiscarded(l) == lists[l].orphaned

\* The handler of this turn.
IsNotify(o) == o.op = "ProcessConnectivityChangeLocked"
IsUpdate(o) == o.op = "UpdateLocked"

\* C1: the policy has at most one active and at most one pending list,
\* never the same list in both slots, and every list created is exactly
\* one of pending, active or discarded.
C1_Slots ==
  /\ subchannel_list_ \in {NullList} \cup ListIds
  /\ latest_pending_subchannel_list_ \in {NullList} \cup ListIds
  /\ subchannel_list_ # NullList
       => subchannel_list_ # latest_pending_subchannel_list_
  /\ \A l \in ListIds :
       /\ IsActive(l) \/ IsPending(l) \/ IsDiscarded(l)
       /\ ~(IsActive(l) /\ IsPending(l))
       /\ ~(IsActive(l) /\ IsDiscarded(l))
       /\ ~(IsPending(l) /\ IsDiscarded(l))

\* C1: a discarded list stays discarded: it never becomes pending or
\* active again.
C1_DiscardedStays ==
  \A l \in ListIds :
    IsDiscarded(l) =>
      /\ lists'[l].orphaned
      /\ subchannel_list_' # l
      /\ latest_pending_subchannel_list_' # l

\* C1: in every reachable state the policy has at most one active list and
\* at most one pending list, the two are never the same list, and every
\* list ever created is exactly one of pending, active or discarded; a
\* discarded list never becomes pending or active again.
C1_ListLifecycle == [](C1_Slots) /\ [][C1_DiscardedStays]_vars

\* C1 witness: three lists exist, one discarded, one active, one pending.
C1_Witness ==
  /\ Len(lists) = 3
  /\ \E a, b, c \in ListIds :
       IsDiscarded(a) /\ IsActive(b) /\ IsPending(c)

\* C2 (as claimed): after StartWatching every list's three counters add up
\* to the number of its entries, and every entry's logical state is one of
\* CONNECTING, READY, TRANSIENT_FAILURE, also for entries polled IDLE.
C2_CountersCoverEntries ==
  \A l \in LiveLists :
    /\ lists[l].num_ready_ + lists[l].num_connecting_
         + lists[l].num_transient_failure_ = num_subchannels(lists[l])
    /\ \A i \in 1..num_subchannels(lists[l]) :
         lists[l].subchannels[i] \in {CONNECTING, READY, TRANSIENT_FAILURE}

\* The entries of a list whose logical state is not the initial IDLE.
NonIdleEntries(sl) ==
  {i \in 1..num_subchannels(sl) : sl.subchannels[i] # IDLE}

C2_CountersCoverNonIdle ==
  \A l \in LiveLists :
    /\ lists[l].num_ready_ + lists[l].num_connecting_
         + lists[l].num_transient_failure_
         = Cardinality(NonIdleEntries(lists[l]))
    /\ \A i \in 1..num_subchannels(lists[l]) :
         lists[l].subchannels[i]
           \in {IDLE, CONNECTING, READY, TRANSIENT_FAILURE}

C2_IdleOnlyInitially ==
  /\ \A l \in LiveLists :
       \A i \in NonIdleEntries(lists[l]) :
         ~lists'[l].orphaned => lists'[l].subchannels[i] # IDLE
  /\ IsNotify(lastOp') /\ lastOp # lastOp'
       => lists'[lastOp'.list].subchannels[lastOp'.index] # IDLE

\* C2 (amended): for every list, at all times after StartWatching has
\* polled its entries, the three counters add up to the number of entries
\* whose logical state is not IDLE, and every entry's logical state is one
\* of IDLE, CONNECTING, READY, TRANSIENT_FAILURE; IDLE is only the initial
\* state of an entry: an entry that has left it, and any entry that
\* has received a notification, is never IDLE.
C2_CountersAmended == [](C2_CountersCoverNonIdle) /\ [][C2_IdleOnlyInitially]_vars

\* C2 witness: an Update has just started watching a list in which one
\* entry polled IDLE and another did not: one entry is counted, two exist.
C2_Witness ==
  /\ IsUpdate(lastOp) /\ lastOp.list # NullList
  /\ LET sl == lists[lastOp.list]
     IN /\ num_subchannels(sl) = 2
        /\ sl.subchannels[1] = IDLE
        /\ sl.subchannels[2] = READY
        /\ sl.num_ready_ + sl.num_connecting_ + sl.num_transient_failure_ = 1

\* What a turn that ran the promotion-and-aggregation procedure on list L
\* found in the two slots when the procedure started: UpdateLocked has put
\* the new list into the pending slot by then.
PendingAtProcedure(o) ==
  IF IsUpdate(o) THEN o.list ELSE latest_pending_subchannel_list_
ActiveAtProcedure == subchannel_list_

C3_Promotes(L) == subchannel_list_' = L /\ ActiveAtProcedure # L

C3_Step ==
  lastOp'.ran =>
    LET L == lastOp'.list
        act == ActiveAtProcedure
        pend == PendingAtProcedure(lastOp')
        a == act = NullList
        b == act # NullList /\ lists[act].num_ready_ = 0
        c == lists'[L].num_ready_ > 0
        d == lists'[L].num_transient_failure_ = num_subchannels(lists'[L])
    IN /\ C3_Promotes(L) <=> (pend = L /\ (a \/ b \/ c \/ d))
       /\ C3_Promotes(L) <=> lastOp'.swapped
       /\ C3_Promotes(L) =>
            /\ latest_pending_subchannel_list_' = NullList
            /\ act # NullList => lists'[act].orphaned
       /\ ~C3_Promotes(L) =>
            /\ subchannel_list_' = act
            /\ latest_pending_subchannel_list_' = pend

\* C3: each run of the promotion-and-aggregation procedure on a list L
\* makes L the active list iff L is the pending list at that moment and
\* (a) there is no active list, or (b) the active list has zero READY
\* entries, or (c) L has a READY entry, or (d) every entry of L is
\* TRANSIENT_FAILURE; on promotion the pending slot becomes empty and the
\* previous active list is discarded, otherwise both slots are unchanged.
C3_PromotionRule == [][C3_Step]_vars

\* C3 witness: a notification has just promoted the pending list over an
\* active list that is now discarded.
C3_Witness ==
  /\ IsNotify(lastOp) /\ lastOp.swapped
  /\ subchannel_list_ = lastOp.list
  /\ \E l \in ListIds : l < lastOp.list /\ IsDiscarded(l)

\* A turn ran the procedure on list L while L was the pending list, with
\* zero READY entries and not all of its entries TRANSIENT_FAILURE.
C4_ZeroReadyPendingRan ==
  /\ lastOp'.ran
  /\ PendingAtProcedure(lastOp') = lastOp'.list
  /\ lists'[lastOp'.list].num_ready_ = 0
  /\ lists'[lastOp'.list].num_transient_failure_
       # num_subchannels(lists'[lastOp'.list])

C4_StaysPending ==
  /\ latest_pending_subchannel_list_' = lastOp'.list
  /\ subchannel_list_' = subchannel_list_
  /\ lists'[subchannel_list_] = lists[subchannel_list_]
  /\ reports' = <<>>

C4_AsClaimedStep ==
  /\ C4_ZeroReadyPendingRan
  /\ subchannel_list_ # NullList
  /\ lists[subchannel_list_].num_ready_ = 0
  /\ lists[subchannel_list_].num_connecting_ > 0
  /\ lists[subchannel_list_].num_connecting_
       = num_subchannels(lists[subchannel_list_])
  => C4_StaysPending

C4_AmendedStep ==
  C4_ZeroReadyPendingRan =>
    IF subchannel_list_ # NullList /\ lists[subchannel_list_].num_ready_ > 0
      THEN C4_StaysPending
      ELSE /\ subchannel_list_' = lastOp'.list
           /\ latest_pending_subchannel_list_' = NullList
           /\ IF lists'[lastOp'.list].num_connecting_ > 0
                THEN /\ Len(reports') = 1
                     /\ reports'[1].state = CONNECTING
                     /\ reports'[1].list = lastOp'.list
                ELSE reports' = <<>>

C5_FirstMatchWins ==
  /\ Len(reports) <= 1
  /\ lastOp.ran /\ subchannel_list_ = lastOp.list =>
       LET sl == lists[lastOp.list]
       IN IF sl.num_ready_ > 0
            THEN Len(reports) = 1 /\ reports[1].state = READY
          ELSE IF sl.num_connecting_ > 0
            THEN Len(reports) = 1 /\ reports[1].state = CONNECTING
          ELSE IF sl.num_transient_failure_ = num_subchannels(sl)
            THEN Len(reports) = 1 /\ reports[1].state = TRANSIENT_FAILURE
          ELSE reports = <<>>

\* C5 witness: the active list has just reported READY while it also has
\* a CONNECTING entry, so the first rule won over the second.
C5_Witness ==
  /\ lastOp.ran /\ subchannel_list_ = lastOp.list
  /\ lists[lastOp.list].num_ready_ > 0
  /\ lists[lastOp.list].num_connecting_ > 0
  /\ Len(reports) = 1 /\ reports[1].state = READY

\* C6: only the list that is active at the end of the promotion step
\* reports to the helper: every UpdateState call of a turn comes from the
\* list the turn ran the procedure on, and that list is the active one; a
\* logical-state change in a list that stays pending makes no call.
C6_OnlyActiveReports ==
  /\ \A k \in 1..Len(reports) :
       /\ lastOp.ran
       /\ reports[k].list = lastOp.list
       /\ reports[k].list = subchannel_list_
  /\ lastOp.ran /\ lastOp.list # subchannel_list_ => reports = <<>>

\* C6 witness: a notification changed the logical state of an entry of a
\* list that stays pending with a CONNECTING entry, and nothing was
\* reported.
C6_Witness ==
  /\ IsNotify(lastOp) /\ lastOp.changed
  /\ latest_pending_subchannel_list_ = lastOp.list
  /\ lists[lastOp.list].num_connecting_ > 0
  /\ reports = <<>>

\* A turn delivers a raw state other than READY to an entry whose logical
\* state is TRANSIENT_FAILURE.
C7_NonReadyToFailedEntry ==
  /\ IsNotify(lastOp') /\ lastOp = NoOp
  /\ lists[lastOp'.list].subchannels[lastOp'.index] = TRANSIENT_FAILURE
  /\ lastOp'.arg # READY

C7_Ignored ==
  C7_NonReadyToFailedEntry =>
    /\ lists' = lists
    /\ subchannel_list_' = subchannel_list_
    /\ latest_pending_subchannel_list_' = latest_pending_subchannel_list_
    /\ reports' = <<>>
    /\ ~lastOp'.changed /\ ~lastOp'.ran /\ ~lastOp'.swapped

C7_LeavesOnlyOnReady ==
  \A l \in LiveLists :
    \A i \in 1..num_subchannels(lists[l]) :
      lists[l].subchannels[i] = TRANSIENT_FAILURE /\ ~lists'[l].orphaned =>
        \/ lists'[l].subchannels[i] = TRANSIENT_FAILURE
        \/ /\ lists'[l].subchannels[i] = READY
           /\ IsNotify(lastOp')
           /\ lastOp'.list = l /\ lastOp'.index = i /\ lastOp'.arg = READY

\* C7: sticky failure: once an entry's logical state is TRANSIENT_FAILURE,
\* a raw IDLE, CONNECTING or TRANSIENT_FAILURE leaves it so, changes no
\* counter and runs no re-aggregation; the logical state leaves
\* TRANSIENT_FAILURE only when raw READY is delivered to that entry.
C7_StickyFailure == [][C7_Ignored /\ C7_LeavesOnlyOnReady]_vars

\* C7 witness: raw CONNECTING has just been delivered to an entry that is
\* logically TRANSIENT_FAILURE, and the entry is still TRANSIENT_FAILURE.
C7_Witness ==
  /\ IsNotify(lastOp) /\ lastOp.arg = CONNECTING /\ ~lastOp.changed
  /\ lists[lastOp.list].subchannels[lastOp.index] = TRANSIENT_FAILURE

\* The second of two deliveries in a row of the raw state of this turn to
\* the entry of this turn: the handler run again from the state the first
\* delivery left.
C8_SecondDelivery ==
  ProcessConnectivityChange(lists, subchannel_list_,
                            latest_pending_subchannel_list_,
                            lastOp.list, lastOp.index, lastOp.arg)

C8_SecondDeliveryIsNoOp ==
  IsNotify(lastOp) /\ WatchActive(lists[lastOp.list]) =>
    /\ ~C8_SecondDelivery.changed
    /\ ~C8_SecondDelivery.ran
    /\ ~C8_SecondDelivery.swapped
    /\ C8_SecondDelivery.ok
    /\ C8_SecondDelivery.lists = lists
    /\ C8_SecondDelivery.active = subchannel_list_
    /\ C8_SecondDelivery.pending = latest_pending_subchannel_list_
    /\ C8_SecondDelivery.reports = <<>>

\* Between the two deliveries other handlers may run: they leave the
\* entry's logical state alone, so the second delivery finds what the
\* first one left.
C8_OnlyOwnDeliveryChangesEntry ==
  \A l \in LiveLists :
    \A i \in 1..num_subchannels(lists[l]) :
      ~lists'[l].orphaned /\ lists'[l].subchannels[i] # lists[l].subchannels[i]
        => IsNotify(lastOp') /\ lastOp'.list = l /\ lastOp'.index = i

\* C8: idempotent notification: when the same raw state is delivered twice
\* in a row to one entry, the second delivery changes no counter and no
\* logical state and does not run the promotion-and-aggregation procedure
\* (no promotion, no report); no handler in between touches the entry.
C8_IdempotentNotification ==
  [](C8_SecondDeliveryIsNoOp) /\ [][C8_OnlyOwnDeliveryChangesEntry]_vars

\* C8 witness: the first delivery changed the logical state, ran the
\* procedure and reported.
C8_Witness ==
  /\ IsNotify(lastOp) /\ lastOp.changed /\ lastOp.ran
  /\ reports # <<>>
  /\ WatchActive(lists[lastOp.list])

\* A turn is an Update with a successful, empty address list, received
\* before Shutdown.
C9_EmptyUpdate ==
  /\ IsUpdate(lastOp') /\ lastOp = NoOp
  /\ lastOp'.arg = AddressesOk
  /\ ~shutdown_
  /\ lists'[lastOp'.list].subchannels = <<>>

C9_PromotedAndFailed ==
  C9_EmptyUpdate =>
    /\ subchannel_list_' = lastOp'.list
    /\ latest_pending_subchannel_list_' = NullList
    /\ lastOp'.swapped
    /\ Len(reports') = 1
    /\ reports'[1].state = TRANSIENT_FAILURE
    /\ reports'[1].list = lastOp'.list

C9_EmptyListNeverReadyOrConnecting ==
  \A k \in 1..Len(reports) :
    num_subchannels(lists[reports[k].list]) = 0
      => reports[k].state = TRANSIENT_FAILURE

\* C9: empty update: an Update with a successful address list of zero
\* addresses, in any non-shutdown state, promotes the new list during that
\* Update and reports TRANSIENT_FAILURE; a list with zero entries never
\* causes a READY or CONNECTING report.
C9_EmptyUpdateFails ==
  [][C9_PromotedAndFailed]_vars /\ [](C9_EmptyListNeverReadyOrConnecting)

\* C9 witness: an empty Update has just replaced an active list that had a
\* READY entry: the list it replaced is discarded and the report is
\* TRANSIENT_FAILURE.
C9_Witness ==
  /\ IsUpdate(lastOp) /\ lastOp.arg = AddressesOk /\ ~shutdown_
  /\ lastOp.list > 1 /\ lastOp.swapped
  /\ lists[lastOp.list].subchannels = <<>>
  /\ subchannel_list_ = lastOp.list
  /\ IsDiscarded(lastOp.list - 1)
  /\ Len(reports) = 1 /\ reports[1].state = TRANSIENT_FAILURE

\* A turn is an Update that carries a resolver failure while an active list
\* is present.
C10_FailureWithActive ==
  /\ IsUpdate(lastOp') /\ lastOp = NoOp
  /\ lastOp'.arg = AddressesError
  /\ subchannel_list_ # NullList

C10_Step ==
  C10_FailureWithActive =>
    /\ lists' = lists
    /\ subchannel_list_' = subchannel_list_
    /\ latest_pending_subchannel_list_' = latest_pending_subchannel_list_
    /\ reports' = <<>>
    /\ lastOp'.list = NullList /\ ~lastOp'.ran

\* C10: resolver-failure retention: an Update that carries a resolver
\* failure while an active list is present creates no new list, leaves the
\* active list's membership, logical states and counters unchanged, leaves
\* the pending list unchanged, and makes no report.
C10_ResolverFailureRetention == [][C10_Step]_vars

\* C10 witness: a resolver failure has just been ignored while an active
\* list with a READY entry and a pending list both exist.
C10_Witness ==
  /\ IsUpdate(lastOp) /\ lastOp.arg = AddressesError
  /\ lastOp.list = NullList
  /\ subchannel_list_ # NullList
  /\ lists[subchannel_list_].num_ready_ > 0
  /\ latest_pending_subchannel_list_ # NullList

\* A turn is an Update that carries a resolver failure while no active list
\* exists.
C11_FailureWithoutActive ==
  /\ IsUpdate(lastOp') /\ lastOp = NoOp
  /\ lastOp'.arg = AddressesError
  /\ subchannel_list_ = NullList

\* A turn is an Update whose address result is successful with zero
\* entries.
C11_EmptySuccess ==
  /\ IsUpdate(lastOp') /\ lastOp = NoOp
  /\ lastOp'.arg = AddressesOk
  /\ lists'[lastOp'.list].subchannels = <<>>

C11_Step ==
  /\ C11_FailureWithoutActive =>
       /\ Len(reports') = 1
       /\ reports'[1].state = TRANSIENT_FAILURE
       /\ reports'[1].status = StatusResolver
       /\ reports'[1].status # StatusEmptyAddressList
  /\ C11_EmptySuccess =>
       /\ Len(reports') = 1
       /\ reports'[1].state = TRANSIENT_FAILURE
       /\ reports'[1].status = StatusEmptyAddressList

\* C11: an Update that carries a resolver failure while no active list
\* exists makes, during that Update, one TRANSIENT_FAILURE report that
\* carries the resolver's own status; that status is not the synthesized
\* 'empty address list' status, which is what the report of an Update with
\* a successful result of zero entries carries.
C11_ResolverStatusReported == [][C11_Step]_vars

\* C11 witness: the first Update carried a resolver failure and has just
\* reported TRANSIENT_FAILURE with the resolver's status.
C11_Witness ==
  /\ IsUpdate(lastOp) /\ lastOp.arg = AddressesError
  /\ lastOp.list # NullList /\ ~shutdown_
  /\ Len(reports) = 1
  /\ reports[1].state = TRANSIENT_FAILURE
  /\ reports[1].status = StatusResolver

\* C12 (as claimed): every TRANSIENT_FAILURE report for a list with at
\* least one entry, all of them TRANSIENT_FAILURE, carries the synthesized
\* 'connections to all backends failing' status, whether the entries were
\* found failed by the initial poll of StartWatching or by notifications;
\* the 'empty address list' status is carried only by reports for a
\* zero-entry list built from a successful address result.
C12_AllFailingStatus ==
  \A k \in 1..Len(reports) :
    reports[k].state = TRANSIENT_FAILURE =>
      LET sl == lists[reports[k].list]
      IN /\ num_subchannels(sl) >= 1
              /\ sl.num_transient_failure_ = num_subchannels(sl)
              => reports[k].status = StatusAllFailing
         /\ reports[k].status = StatusEmptyAddressList
              => /\ num_subchannels(sl) = 0
                 /\ IsUpdate(lastOp) /\ lastOp.arg = AddressesOk

\* A turn is a control call (Update, ResetBackoff, Shutdown) received
\* after Shutdown: the handler has started, and either returned or aborted.
C13_ControlCallAfterShutdown ==
  /\ shutdown_ /\ lastOp = NoOp
  /\ \/ failed'
     \/ lastOp'.op \in {"UpdateLocked", "ResetBackoffLocked", "ShutdownLocked"}

C13_Step ==
  /\ lastOp'.op = "ShutdownLocked" /\ lastOp = NoOp =>
       /\ subchannel_list_' = NullList
       /\ latest_pending_subchannel_list_' = NullList
       /\ \A l \in ListIds : lists'[l].orphaned
  /\ C13_ControlCallAfterShutdown =>
       /\ lists' = lists
       /\ reports' = <<>>
       /\ ~failed'
       /\ subchannel_list_' = NullList
       /\ latest_pending_subchannel_list_' = NullList

\* C13 (as claimed): Shutdown discards both the active and the pending
\* list, and every control call after Shutdown (Update with any resolver
\* result, ResetBackoff, Shutdown) is a safe no-op: it creates no list,
\* makes no report, fails no assertion and leaves both lists absent.
C13_NoOpAfterShutdown == [][C13_Step]_vars

\* A turn is a ResetBackoff call.
C14_ResetBackoffRan ==
  lastOp = NoOp /\ lastOp'.op = "ResetBackoffLocked"

C14_Step ==
  C14_ResetBackoffRan =>
    /\ ~failed'
    /\ lists' = lists
    /\ subchannel_list_' = subchannel_list_
    /\ latest_pending_subchannel_list_' = latest_pending_subchannel_list_
    /\ shutdown_' = shutdown_
    /\ reports' = <<>>

\* C14 (as claimed): ResetBackoff, called in any reachable state (also
\* before the first Update, when no active list exists), forwards to the
\* lists that are present, fails nothing and changes no other state:
\* lists, logical states, counters and the reported state stay as they
\* were.
C14_ResetBackoffIsSafe == [][C14_Step]_vars

\* The subchannels of the Picker's snapshot.
SnapshotSubchannels == {subchannels_[k] : k \in 1..Len(subchannels_)}

\* C15: round-robin coverage: for a Picker built over n >= 1 READY
\* subchannels and called sequentially, the k-th Pick() returns the
\* subchannel k positions after the initial random offset (modulo n), any
\* n consecutive Pick() calls return each subchannel of the snapshot
\* exactly once, the results repeat with period n, and the cursor stays in
\* [0, n).
C15_RoundRobinCoverage ==
  ~concurrent =>
    LET n == Len(subchannels_)
    IN /\ n >= 1
       /\ last_picked_index_ \in 0..(n - 1)
       /\ \A k \in 1..Len(picked) :
            /\ picked[k].index = (first_index + k) % n
            /\ picked[k].subchannel = subchannels_[picked[k].index + 1]
       /\ \A k \in 1..(Len(picked) - n + 1) :
            {picked[j].subchannel : j \in k..(k + n - 1)}
              = SnapshotSubchannels
       /\ \A k \in 1..(Len(picked) - n) : picked[k + n] = picked[k]

\* C15 witness: four sequential Pick() calls on a Picker over two READY
\* subchannels have gone twice round the snapshot.
C15_Witness ==
  /\ ~concurrent
  /\ Len(subchannels_) = 2
  /\ Len(picked) = 4
  /\ picked[1].subchannel # picked[2].subchannel
  /\ picked[3] = picked[1]

\* C16 (as claimed): Pick() is safe under concurrent invocation on one
\* Picker: for any interleaving of k concurrent Pick() calls, once they
\* have returned the cursor has advanced by exactly k modulo n (no update
\* is lost) and the k calls have returned k consecutive positions of the
\* rotation, each a subchannel of the snapshot.
C16_AtomicCursor ==
  Inside = {} =>
    LET n == Len(subchannels_)
        k == Len(picked)
    IN /\ last_picked_index_ = (first_index + k) % n
       /\ \A x \in 0..(n - 1) :
            Cardinality({j \in 1..k : picked[j].index = x})
              = Cardinality({j \in 1..k : (first_index + j) % n = x})
       /\ \A j \in 1..k : picked[j].subchannel \in SnapshotSubchannels

\* The requests of this turn of one kind.
RequestsOf(call) == {k \in 1..Len(requests) : requests[k].call = call}

\* C17: re-resolution trigger count: every raw TRANSIENT_FAILURE or IDLE
\* notification delivered by an active watch makes exactly one
\* re-resolution request to the helper and exactly one reconnection
\* request to that subchannel, whether or not the entry's logical state
\* changes; raw READY and CONNECTING notifications make neither, and the
\* initial poll of StartWatching makes no re-resolution request.
C17_ReresolutionTriggers ==
  /\ IsNotify(lastOp) =>
       IF lastOp.arg \in {TRANSIENT_FAILURE, IDLE}
         THEN /\ Cardinality(RequestsOf("RequestReresolution")) = 1
              /\ Cardinality(RequestsOf("RequestConnection")) = 1
              /\ \A k \in RequestsOf("RequestConnection") :
                   /\ requests[k].list = lastOp.list
                   /\ requests[k].index = lastOp.index
         ELSE /\ RequestsOf("RequestReresolution") = {}
              /\ RequestsOf("RequestConnection") = {}
  /\ IsUpdate(lastOp) => RequestsOf("RequestReresolution") = {}

\* C17 witness: raw IDLE has just been delivered to an entry that is
\* sticky in TRANSIENT_FAILURE: no logical change, both requests made.
C17_Witness ==
  /\ IsNotify(lastOp) /\ lastOp.arg = IDLE /\ ~lastOp.changed
  /\ lists[lastOp.list].subchannels[lastOp.index] = TRANSIENT_FAILURE
  /\ Len(requests) = 2

\* The READY entries of a list.
ReadyEntries(sl) ==
  {i \in 1..num_subchannels(sl) : sl.subchannels[i] = READY}

\* Whether snapshot lists exactly the READY entries of sl, in list order.
IsReadySnapshot(snapshot, sl) ==
  /\ {snapshot[k] : k \in 1..Len(snapshot)} = ReadyEntries(sl)
  /\ \A j, k \in 1..Len(snapshot) : j < k => snapshot[j] < snapshot[k]

C18_ReadyReportSnapshot ==
  \A k \in 1..Len(reports) :
    reports[k].state = READY =>
      /\ reports[k].list = subchannel_list_
      /\ reports[k].picker # <<>>
      /\ IsReadySnapshot(reports[k].picker, lists[subchannel_list_])
      /\ picker = [list |-> subchannel_list_,
                   subchannels_ |-> reports[k].picker]

C18_BuiltPickerKept ==
  picker' # picker =>
    /\ reports' # <<>>
    /\ IF reports'[1].state = READY
         THEN picker' = [list |-> reports'[1].list,
                         subchannels_ |-> reports'[1].picker]
         ELSE picker' = NoPicker

\* C18: whenever the policy reports READY, the Picker handed to the helper
\* is built over the active list at that instant: its snapshot is
\* non-empty and holds exactly the entries of the active list whose
\* logical state is READY, in list order; a Picker once built keeps its
\* snapshot whatever the logical states do later, until the next report
\* replaces the Picker.
C18_PickerSnapshot ==
  [](C18_ReadyReportSnapshot) /\ [][C18_BuiltPickerKept]_vars

\* C18 witness: an entry of the list the Picker was built over has just
\* left READY, the list is still active and made no report, and the Picker
\* still holds the entry.
C18_Witness ==
  /\ picker # NoPicker
  /\ picker.list = subchannel_list_
  /\ \E k \in 1..Len(picker.subchannels_) :
       lists[picker.list].subchannels[picker.subchannels_[k]] # READY
  /\ IsNotify(lastOp) /\ lastOp.changed

\* The entries of a list in one logical state.
EntriesIn(sl, state) ==
  {i \in 1..num_subchannels(sl) : sl.subchannels[i] = state}

\* C19: in every reachable state each list's numReady, numConnecting and
\* numTransientFailure equal the number of its entries whose logical state
\* is READY, CONNECTING and TRANSIENT_FAILURE, so the decrement-below-zero
\* assertions of UpdateCounters never fire: the only handler that can
\* abort is ResetBackoff, on a missing list.
C19_CountersMatchEntries ==
  /\ \A l \in LiveLists :
       /\ lists[l].num_ready_ = Cardinality(EntriesIn(lists[l], READY))
       /\ lists[l].num_connecting_
            = Cardinality(EntriesIn(lists[l], CONNECTING))
       /\ lists[l].num_transient_failure_
            = Cardinality(EntriesIn(lists[l], TRANSIENT_FAILURE))
  /\ failed => lastOp.op = "ResetBackoffLocked"

\* C19 witness: raw READY has just moved an entry out of a counted bucket
\* into the READY bucket of a list that also has a TRANSIENT_FAILURE
\* entry, and the CONNECTING bucket is empty.
C19_Witness ==
  /\ IsNotify(lastOp) /\ lastOp.changed /\ lastOp.arg = READY
  /\ ~IsDiscarded(lastOp.list)
  /\ lists[lastOp.list].num_ready_ = 1
  /\ lists[lastOp.list].num_transient_failure_ = 1
  /\ lists[lastOp.list].num_connecting_ = 0

\* C20: from the completion of the first Update until Shutdown an active
\* list is always present, because a list created while no active list
\* exists is promoted inside the same Update; a pending list exists only
\* while an active list exists.
C20_ActiveListPresent ==
  /\ Len(lists) >= 1 /\ ~shutdown_ => subchannel_list_ # NullList
  /\ latest_pending_subchannel_list_ # NullList
       => subchannel_list_ # NullList
  /\ IsUpdate(lastOp) /\ lastOp.list # NullList /\ ~lastOp.swapped
       => /\ subchannel_list_ # NullList
          /\ subchannel_list_ # lastOp.list

\* C20 witness: the first Update, whose only subchannel polled IDLE, has
\* just promoted its list although the list has nothing to report.
C20_Witness ==
  /\ IsUpdate(lastOp) /\ lastOp.list = 1 /\ lastOp.swapped
  /\ subchannel_list_ = 1
  /\ lists[1].subchannels = <<IDLE>>
  /\ reports = <<>>

\* A turn is a notification that takes the last READY entry of the active
\* list away while a pending list exists.
C21_ActiveLosesLastReady ==
  /\ lastOp = NoOp /\ IsNotify(lastOp')
  /\ lastOp'.list = subchannel_list_
  /\ latest_pending_subchannel_list_ # NullList
  /\ lists[subchannel_list_].num_ready_ > 0
  /\ lists'[subchannel_list_].num_ready_ = 0

\* A turn is a notification to an entry of the pending list while the
\* active list has zero READY entries.
C21_PendingNotified ==
  /\ lastOp = NoOp /\ IsNotify(lastOp')
  /\ lastOp'.list = latest_pending_subchannel_list_
  /\ subchannel_list_ # NullList
  /\ lists[subchannel_list_].num_ready_ = 0

C21_StillPending ==
  /\ ~lastOp'.swapped
  /\ subchannel_list_' = subchannel_list_
  /\ latest_pending_subchannel_list_' = latest_pending_subchannel_list_
  /\ ~lists'[latest_pending_subchannel_list_].orphaned

C21_PromotedOnOwnChange ==
  /\ lastOp'.swapped => PendingAtProcedure(lastOp') = lastOp'.list
  /\ C21_PendingNotified =>
       IF lastOp'.changed
         THEN /\ lastOp'.swapped
              /\ subchannel_list_' = lastOp'.list
              /\ latest_pending_subchannel_list_' = NullList
         ELSE C21_StillPending

C21_AsClaimedStep ==
  /\ C21_PromotedOnOwnChange
  /\ C21_ActiveLosesLastReady =>
       /\ C21_StillPending
       /\ Len(reports') = 1
       /\ reports'[1].list = subchannel_list_
       /\ reports'[1].state \in {CONNECTING, TRANSIENT_FAILURE}

\* C21 (as claimed): promotion is evaluated only when the pending list
\* itself runs the procedure. If the active list loses its last READY
\* entry while a pending list exists, the pending list is still pending at
\* the end of that turn and the active list reports its own CONNECTING or
\* TRANSIENT_FAILURE state; the pending list is promoted at the next
\* logical-state change of one of its own entries, the active list still
\* having zero READY entries then.
C21_PromotionOnlyOnOwnRun == [][C21_AsClaimedStep]_vars

C21_AmendedStep ==
  /\ C21_PromotedOnOwnChange
  /\ C21_ActiveLosesLastReady =>
       /\ C21_StillPending
       /\ LET sl == lists'[subchannel_list_]
          IN IF sl.num_connecting_ > 0
               THEN /\ Len(reports') = 1
                    /\ reports'[1].list = subchannel_list_
                    /\ reports'[1].state = CONNECTING
             ELSE IF EntriesIn(sl, IDLE) = {}
               THEN /\ Len(reports') = 1
                    /\ reports'[1].list = subchannel_list_
                    /\ reports'[1].state = TRANSIENT_FAILURE
             ELSE reports' = <<>>

\* C21 (amended): promotion is evaluated only when the pending list itself
\* runs the procedure. If the active list loses its last READY entry while
\* a pending list exists, the pending list is still pending at the end of
\* that turn; the active list reports CONNECTING if it has a CONNECTING
\* entry, else TRANSIENT_FAILURE if none of its entries is still in the
\* initial IDLE state, else nothing. The pending list is promoted at the
\* next logical-state change of one of its own entries, the active list
\* still having zero READY entries then.
C21_PromotionOnlyOnOwnRunAmended == [][C21_AmendedStep]_vars

\* C21 witness: a notification has just taken the last READY entry of the
\* active list away, the active list has reported its own state, and the
\* pending list is still pending.
C21_Witness ==
  /\ IsNotify(lastOp) /\ lastOp.changed
  /\ lastOp.list = subchannel_list_
  /\ lastOp.arg # READY
  /\ lists[subchannel_list_].num_ready_ = 0
  /\ latest_pending_subchannel_list_ # NullList
  /\ Len(reports) = 1

====
